---- MODULE Spec2Model ----
(***************************************************************************)
(* Model of ZonedAsyncPipe (src/zone-async.pipe.ts): an Angular pipe that  *)
(* subscribes to an Observable outside the Angular zone, caches the latest *)
(* emission and hands it to the template on every change-detection pass.   *)
(*                                                                         *)
(* The pipe's four fields are the variables _latestValue,                  *)
(* _latestReturnedValue, _subscription and _obj.  The Observables and the  *)
(* zone are the environment: subs records every subscription the pipe has  *)
(* created.  JavaScript runs every call to completion, ngZone.run          *)
(* included, so each call of the pipe or of one of its callbacks is one    *)
(* step; last describes the call that has just completed.                  *)
(* Producers obey the Observable grammar (no next after error) per         *)
(* subscription; a callback of an unsubscribed subscription may still be   *)
(* invoked late, which is the case the guard of _updateLatestValue is      *)
(* written for.  lastEmit is the value last passed to a next callback of   *)
(* the producer subscribed to most recently, null right after subscribing. *)
(* prevRet is the value the previous transform returned for the producer   *)
(* that is still bound, NoRet when there is none.                          *)
(***************************************************************************)
EXTENDS Integers, Sequences, FiniteSets

\* ---- bounds ----
MaxVal == 2
NumProducers == 2
MaxSubs == 3
MaxSync == 1

\* ---- values ----
Null == 0
NaN == -1
Values == 1..MaxVal
EmitValues == Values \cup {Null, NaN}
Producers == 1..NumProducers
ObjArgs == Producers \cup {Null}

\* JavaScript ===: identity, except that NaN is not equal to itself.
StrictEq(a, b) == a = b /\ a # NaN

Max(a, b) == IF a >= b THEN a ELSE b

\* What the producer does synchronously inside obj.subscribe(): the values
\* it emits, and how the call ends: "open" (returns an open subscription),
\* "throw" (the producer signals an error, the error callback rethrows and
\* the rethrown error leaves subscribe()), "closed" (the producer signals an
\* error, the rethrown error is reported on a later turn and subscribe()
\* returns an already closed subscription).
SyncEmits == UNION {[1..n -> EmitValues] : n \in 0..MaxSync}
SyncEnds == {"open", "throw", "closed"}
SyncRuns == [emits : SyncEmits, end : SyncEnds]
NoSync == [emits |-> <<>>, end |-> "open"]

\* No value: the call did not return one.
NoRet == -2

VARIABLES _latestValue, _latestReturnedValue, _subscription, _obj,
          subs, last, lastEmit, scen, prevRet

vars == <<_latestValue, _latestReturnedValue, _subscription, _obj,
          subs, last, lastEmit, scen, prevRet>>

NumActive(ss) == Cardinality({i \in 1..Len(ss) : ss[i].status = "active"})

\* The state an operation of the pipe starts from: the fields, the
\* environment, and the bookkeeping of the operation itself (zone it runs
\* in, exception in flight, return value, events so far).
St ==
  [lv |-> _latestValue, lrv |-> _latestReturnedValue,
   sub |-> _subscription, obj |-> _obj,
   subs |-> subs, lastEmit |-> lastEmit,
   zone |-> "angular", threw |-> "none",
   ret |-> Null, wrapped |-> FALSE,
   log |-> <<>>, peak |-> NumActive(subs)]

Ev(st, name) == [st EXCEPT !.log = Append(@, <<name, st.zone>>)]

\* ---- the pipe ----

\* Variant: the delivery callback drops the value instead of caching it.
Mut_updateNoWrite(st, async, value) ==
  IF async = st.obj THEN Ev(st, "markForCheck") ELSE st

\* Variant: the identity check against the bound producer is missing.
Mut_updateNoGuard(st, async, value) ==
  Ev(Ev([st EXCEPT !.lv = value], "write"), "markForCheck")

\* lines 99-104
_updateLatestValue(st, async, value) ==
  IF async = st.obj
  THEN Ev(Ev([st EXCEPT !.lv = value], "write"), "markForCheck")
  ELSE st

\* Variant: the callback calls _updateLatestValue without ngZone.run.
Mut_nextNoZoneRun(st, obj, value) ==
  _updateLatestValue(
    [st EXCEPT !.lastEmit = IF obj = st.subs[Len(st.subs)].obj
                            THEN value ELSE @],
    obj, value)

\* line 85: value => this.ngZone.run(() => this._updateLatestValue(obj, value))
nextCallback(st, obj, value) ==
  LET entered == [st EXCEPT !.zone = "angular",
                            !.lastEmit = IF obj = st.subs[Len(st.subs)].obj
                                         THEN value ELSE @]
      done == _updateLatestValue(entered, obj, value)
  IN [done EXCEPT !.zone = st.zone]

\* line 86: e => { throw e; }
errorCallback(st) == Ev([st EXCEPT !.threw = "producer"], "throw")

RECURSIVE DeliverSync(_, _, _)
DeliverSync(st, obj, emits) ==
  IF emits = <<>> THEN st
  ELSE DeliverSync(nextCallback(st, obj, Head(emits)), obj, Tail(emits))

\* Variant: this._obj is assigned after obj.subscribe() has returned.
Mut_subscribeBindLate(st, obj, sync) ==
  LET n == Len(st.subs) + 1
      outside == [st EXCEPT !.zone = "outside"]
      created == Ev([outside EXCEPT
                       !.subs = Append(@, [obj |-> obj, status |-> "active",
                                           zone |-> outside.zone]),
                       !.lastEmit = Null,
                       !.peak = Max(@, NumActive(outside.subs) + 1)],
                    "subscribe")
      emitted == DeliverSync(created, obj, sync.emits)
      back(s) == [s EXCEPT !.zone = st.zone]
  IN CASE sync.end = "open" -> back([emitted EXCEPT !.sub = n, !.obj = obj])
       [] sync.end = "throw" ->
            back(errorCallback([emitted EXCEPT !.subs[n].status = "errored"]))
       [] sync.end = "closed" ->
            back([Ev([emitted EXCEPT !.subs[n].status = "errored"],
                     "throwLater")
                  EXCEPT !.sub = n, !.obj = obj])

\* Variant: obj.subscribe() is called without ngZone.runOutsideAngular.
Mut_subscribeInZone(st, obj, sync) ==
  LET n == Len(st.subs) + 1
      bound == [st EXCEPT !.obj = obj]
      created == Ev([bound EXCEPT
                       !.subs = Append(@, [obj |-> obj, status |-> "active",
                                           zone |-> bound.zone]),
                       !.lastEmit = Null,
                       !.peak = Max(@, NumActive(bound.subs) + 1)],
                    "subscribe")
      emitted == DeliverSync(created, obj, sync.emits)
  IN CASE sync.end = "open" -> [emitted EXCEPT !.sub = n]
       [] sync.end = "throw" ->
            errorCallback([emitted EXCEPT !.subs[n].status = "errored"])
       [] sync.end = "closed" ->
            [Ev([emitted EXCEPT !.subs[n].status = "errored"], "throwLater")
             EXCEPT !.sub = n]

\* lines 76-89
_subscribe(st, obj, sync) ==
  LET n == Len(st.subs) + 1
      bound == [st EXCEPT !.obj = obj]
      outside == [bound EXCEPT !.zone = "outside"]
      created == Ev([outside EXCEPT
                       !.subs = Append(@, [obj |-> obj, status |-> "active",
                                           zone |-> outside.zone]),
                       !.lastEmit = Null,
                       !.peak = Max(@, NumActive(outside.subs) + 1)],
                    "subscribe")
      emitted == DeliverSync(created, obj, sync.emits)
      back(s) == [s EXCEPT !.zone = st.zone]
  IN CASE sync.end = "open" -> back([emitted EXCEPT !.sub = n])
       [] sync.end = "throw" ->
            back(errorCallback([emitted EXCEPT !.subs[n].status = "errored"]))
       [] sync.end = "closed" ->
            back([Ev([emitted EXCEPT !.subs[n].status = "errored"],
                     "throwLater")
                  EXCEPT !.sub = n])

\* ISubscription.unsubscribe(), line 92
Unsubscribe(ss, s) ==
  IF ss[s].status = "active" THEN [ss EXCEPT ![s].status = "unsubscribed"]
  ELSE ss

\* Variant: the fields are cleared but the subscription is left open.
Mut_disposeNoUnsubscribe(st) ==
  IF st.sub = Null
  THEN Ev([st EXCEPT !.threw = "TypeError"], "throw")
  ELSE [st EXCEPT !.lv = Null, !.lrv = Null, !.sub = Null, !.obj = Null]

\* lines 91-97
_dispose(st) ==
  IF st.sub = Null
  THEN Ev([st EXCEPT !.threw = "TypeError"], "throw")
  ELSE [Ev([st EXCEPT !.subs = Unsubscribe(@, st.sub)], "unsubscribe")
        EXCEPT !.lv = Null, !.lrv = Null, !.sub = Null, !.obj = Null]

RECURSIVE transform(_, _, _)

\* Variant: the unbound branch subscribes without testing obj.
Mut_transformNoObjTest(st, obj, sync) ==
  IF st.obj = Null
  THEN LET s1 == IF obj # Null THEN _subscribe(st, obj, sync)
                 ELSE Ev([st EXCEPT !.threw = "TypeError"], "throw")
       IN IF s1.threw # "none" THEN s1
          ELSE [s1 EXCEPT !.lrv = s1.lv, !.ret = s1.lv]
  ELSE IF obj # st.obj
  THEN LET s1 == _dispose(st)
       IN IF s1.threw # "none" THEN s1 ELSE transform(s1, obj, sync)
  ELSE IF StrictEq(st.lv, st.lrv)
  THEN [st EXCEPT !.ret = st.lrv]
  ELSE [st EXCEPT !.lrv = st.lv, !.ret = st.lv, !.wrapped = TRUE]

\* Variant: the changed branch returns the value without wrapping it.
Mut_transformNoWrap(st, obj, sync) ==
  IF st.obj = Null
  THEN LET s1 == IF obj # Null THEN _subscribe(st, obj, sync) ELSE st
       IN IF s1.threw # "none" THEN s1
          ELSE [s1 EXCEPT !.lrv = s1.lv, !.ret = s1.lv]
  ELSE IF obj # st.obj
  THEN LET s1 == _dispose(st)
       IN IF s1.threw # "none" THEN s1 ELSE transform(s1, obj, sync)
  ELSE IF StrictEq(st.lv, st.lrv)
  THEN [st EXCEPT !.ret = st.lrv]
  ELSE [st EXCEPT !.lrv = st.lv, !.ret = st.lv]

\* Variant: the unbound branch does not record the value it returns.
Mut_transformNoRecord(st, obj, sync) ==
  IF st.obj = Null
  THEN LET s1 == IF obj # Null THEN _subscribe(st, obj, sync) ELSE st
       IN IF s1.threw # "none" THEN s1
          ELSE [s1 EXCEPT !.ret = s1.lv]
  ELSE IF obj # st.obj
  THEN LET s1 == _dispose(st)
       IN IF s1.threw # "none" THEN s1 ELSE transform(s1, obj, sync)
  ELSE IF StrictEq(st.lv, st.lrv)
  THEN [st EXCEPT !.ret = st.lrv]
  ELSE [st EXCEPT !.lrv = st.lv, !.ret = st.lv, !.wrapped = TRUE]

\* lines 54-74
transform(st, obj, sync) ==
  IF st.obj = Null
  THEN LET s1 == IF obj # Null THEN _subscribe(st, obj, sync) ELSE st
       IN IF s1.threw # "none" THEN s1
          ELSE [s1 EXCEPT !.lrv = s1.lv, !.ret = s1.lv]
  ELSE IF obj # st.obj
  THEN LET s1 == _dispose(st)
       IN IF s1.threw # "none" THEN s1 ELSE transform(s1, obj, sync)
  ELSE IF StrictEq(st.lv, st.lrv)
  THEN [st EXCEPT !.ret = st.lrv]
  ELSE [st EXCEPT !.lrv = st.lv, !.ret = st.lv, !.wrapped = TRUE]

\* Variant: the destroy hook forgets to dispose.
Mut_ngOnDestroyNoDispose(st) == st

\* Variant: the destroy hook disposes without testing _subscription.
Mut_ngOnDestroyNoTest(st) == _dispose(st)

\* lines 45-49
ngOnDestroy(st) ==
  IF st.sub # Null THEN _dispose(st) ELSE st

\* ---- the state machine ----

Done(op, arg, r, late) ==
  [op |-> op, arg |-> arg, ret |-> r.ret, wrapped |-> r.wrapped,
   threw |-> r.threw, log |-> r.log, peak |-> r.peak, late |-> late,
   wasObj |-> _obj]

Commit(r) ==
  /\ _latestValue' = r.lv
  /\ _latestReturnedValue' = r.lrv
  /\ _subscription' = r.sub
  /\ _obj' = r.obj
  /\ subs' = r.subs
  /\ lastEmit' = r.lastEmit

Init ==
  /\ _latestValue = Null
  /\ _latestReturnedValue = Null
  /\ _subscription = Null
  /\ _obj = Null
  /\ subs = <<>>
  /\ lastEmit = Null
  /\ scen = 0
  /\ prevRet = NoRet
  /\ last = Done("init", Null, St, FALSE)

\* Progress of the scenario "bind, emit 1, emit 2": 1 after the binding
\* render returned null, 2 after a later render of the same producer
\* returned 1, 3 after a still later one returned 2.
ScenStep(obj, r) ==
  IF r.threw # "none" THEN 0
  ELSE IF _obj = Null /\ obj # Null /\ r.ret = Null THEN 1
  ELSE IF obj # _obj \/ obj = Null THEN 0
  ELSE IF scen = 1 /\ r.ret = 1 THEN 2
  ELSE IF scen = 2 /\ r.ret = 2 THEN 3
  ELSE IF r.wrapped THEN 0
  ELSE scen

\* transform(obj) reaches obj.subscribe() (lines 56-57, directly or through
\* the recursion of line 65); only then does the producer get to run.
ReachesSubscribe(obj) ==
  obj # Null /\ obj # _obj /\ (_obj = Null \/ _subscription # Null)

SyncFor(obj) == IF ReachesSubscribe(obj) THEN SyncRuns ELSE {NoSync}

\* The host calls transform(obj) during a change-detection pass.
Render(obj, sync) ==
  /\ sync \in SyncFor(obj)
  /\ ReachesSubscribe(obj) => Len(subs) < MaxSubs
  /\ \E r \in {transform(St, obj, sync)} :
        /\ Commit(r)
        /\ last' = Done("transform", obj, r, FALSE)
        /\ scen' = ScenStep(obj, r)
        /\ prevRet' = IF r.threw # "none" \/ r.obj = Null
                      THEN NoRet ELSE r.ret

\* The host destroys the owning view.
Destroy ==
  /\ LET r == ngOnDestroy(St)
     IN /\ Commit(r)
        /\ last' = Done("ngOnDestroy", Null, r, FALSE)
        /\ prevRet' = IF r.obj = Null THEN NoRet ELSE prevRet
  /\ scen' = 0

\* The producer of an open subscription calls next(value): the callback of
\* line 85 runs _updateLatestValue inside the Angular zone and returns.
Deliver(s, v) ==
  /\ s \in 1..Len(subs)
  /\ subs[s].status = "active"
  /\ \E r \in {nextCallback([St EXCEPT !.zone = subs[s].zone],
                                subs[s].obj, v)} :
        /\ Commit(r)
        /\ last' = Done("next", subs[s].obj, r, FALSE)
  /\ UNCHANGED <<scen, prevRet>>

\* The callback of a subscription the pipe has already unsubscribed is
\* invoked late.
LateDeliver(s, v) ==
  /\ s \in 1..Len(subs)
  /\ subs[s].status = "unsubscribed"
  /\ \E r \in {nextCallback([St EXCEPT !.zone = subs[s].zone],
                                subs[s].obj, v)} :
        /\ Commit(r)
        /\ last' = Done("next", subs[s].obj, r, TRUE)
  /\ UNCHANGED <<scen, prevRet>>

\* The producer of an open subscription signals an error: the callback of
\* line 86 rethrows it and the subscription is closed.
ProducerError(s) ==
  /\ s \in 1..Len(subs)
  /\ subs[s].status = "active"
  /\ LET r == errorCallback([St EXCEPT !.zone = subs[s].zone,
                                       !.subs[s].status = "errored"])
     IN /\ Commit(r)
        /\ last' = Done("error", subs[s].obj, r, FALSE)
  /\ UNCHANGED <<scen, prevRet>>

Next ==
  \/ \E obj \in ObjArgs : \E sync \in SyncFor(obj) : Render(obj, sync)
  \/ Destroy
  \/ \E s \in 1..MaxSubs, v \in EmitValues : Deliver(s, v)
  \/ \E s \in 1..MaxSubs, v \in EmitValues : LateDeliver(s, v)
  \/ \E s \in 1..MaxSubs : ProducerError(s)

Spec == Init /\ [][Next]_vars

\* ---- properties ----

HasEv(log, name) == \E i \in 1..Len(log) : log[i][1] = name

Fields == <<_latestValue, _latestReturnedValue, _subscription, _obj>>

\* What every possible next render would return from state st.
RenderView(st) ==
  [p \in ObjArgs, y \in SyncRuns |->
     LET r == transform(st, p, y) IN <<r.ret, r.wrapped, r.threw>>]

\* The step is a call of transform.
IsRenderStep == last'.op = "transform"

\* C1: a render of the producer the binding is already bound to returns the
\* value that producer delivered most recently since it was bound, so that
\* renders interleaved with the emissions 1, 2 yield null, 1, 2.
C1_RenderReturnsLatestDelivered ==
  (last.op = "transform" /\ last.threw = "none" /\ last.arg # Null
     /\ last.wasObj = last.arg)
  => last.ret = lastEmit

C1_Witness == scen = 3 /\ last.op = "transform" /\ last.ret = 2

FirstRender == last.op = "transform" /\ last.wasObj = Null /\ last.arg # Null

\* C2 (as claimed): the first render(P) on an unbound binding subscribes to
\* P and returns null, whenever P emits.
C2_FirstRenderReturnsNull ==
  FirstRender
  => (HasEv(last.log, "subscribe") /\ last.threw = "none" /\ last.ret = Null)

\* C2 (amended): the first render(P) on an unbound binding subscribes to P
\* and returns, unwrapped, the value P emitted last during the subscribe
\* call, null when P emitted nothing during it; when P's error leaves the
\* subscribe call the render throws that error instead of returning.
C2_FirstRenderReturnsSyncValue ==
  FirstRender
  => /\ HasEv(last.log, "subscribe")
     /\ subs[Len(subs)].obj = last.arg
     /\ _obj = last.arg
     /\ IF last.threw # "none"
        THEN last.threw = "producer" /\ subs[Len(subs)].status = "errored"
        ELSE /\ last.ret = lastEmit
             /\ ~last.wrapped
             /\ (~HasEv(last.log, "write") => last.ret = Null)

C2_Witness ==
  FirstRender /\ last.threw = "none" /\ last.ret \in Values
    /\ HasEv(last.log, "write")

\* C3: right after ngOnDestroy no subscription the pipe ever created is
\* still open.
C3_NoActiveSubscriptionAfterDestroy ==
  last.op = "ngOnDestroy"
  => \A i \in 1..Len(subs) : subs[i].status # "active"

C3_Witness ==
  last.op = "ngOnDestroy" /\ HasEv(last.log, "unsubscribe") /\ Len(subs) >= 2

\* C4: at most one subscription is open at any point, also inside a
\* rebinding render, which unsubscribes the old producer before it
\* subscribes to the new one.
C4_AtMostOneActive ==
  /\ NumActive(subs) <= 1
  /\ last.peak <= 1
  /\ (last.op = "transform" /\ last.wasObj # Null
        /\ HasEv(last.log, "subscribe"))
     => \E i, j \in 1..Len(last.log) :
          i < j /\ last.log[i][1] = "unsubscribe"
                /\ last.log[j][1] = "subscribe"

C4_Witness ==
  /\ last.op = "transform" /\ last.arg # Null /\ last.wasObj # Null
  /\ last.arg # last.wasObj
  /\ HasEv(last.log, "unsubscribe") /\ HasEv(last.log, "subscribe")
  /\ NumActive(subs) = 1

\* The step is a late delivery from an unsubscribed subscription.
IsLateDelivery == last'.op = "next" /\ last'.late

\* C5: once the binding is bound to another producer than P1, or
\* ngOnDestroy has run, a late delivery from P1 leaves _latestValue and
\* _latestReturnedValue alone, does not call markForCheck, and does not
\* change what the next render returns.
C5_StaleDeliveryIgnored ==
  [][(IsLateDelivery /\ (last'.arg # _obj \/ last.op = "ngOnDestroy"))
       => /\ _latestValue' = _latestValue
          /\ _latestReturnedValue' = _latestReturnedValue
          /\ ~HasEv(last'.log, "markForCheck")
          /\ RenderView(St') = RenderView(St)]_vars

\* Subscriptions whose producer schedules its work inside the Angular zone.
TrackedTasks ==
  {i \in 1..Len(subs) : subs[i].status = "active" /\ subs[i].zone = "angular"}

\* C6: between two deliveries (every state of the model: a delivery is one
\* step) nothing is pending in the Angular zone, whatever subscriptions
\* are open, so the zone is stable.
C6_ZoneStableWhenIdle == TrackedTasks = {}

C6_Witness ==
  /\ _subscription # Null
  /\ subs[_subscription].status = "active"
  /\ last.op = "next" /\ ~last.late /\ HasEv(last.log, "write")
  /\ TrackedTasks = {}

\* C7: transform(null) on an unbound pipe returns null, subscribes to
\* nothing and changes no field.
C7_RenderAbsentUnbound ==
  [][(IsRenderStep /\ _obj = Null /\ last'.arg = Null)
       => /\ last'.ret = Null /\ last'.threw = "none" /\ ~last'.wrapped
          /\ last'.log = <<>>
          /\ UNCHANGED <<Fields, subs>>]_vars

C7_Witness ==
  last.op = "transform" /\ last.arg = Null /\ last.wasObj = Null
    /\ Len(subs) >= 1

\* C8: a render(P) that directly follows a render(P) that returned returns
\* the same value, unwrapped, and changes no field.
C8_UnchangedReadIdempotent ==
  [][(IsRenderStep /\ last.op = "transform" /\ last.threw = "none"
        /\ last.arg # Null /\ last'.arg = last.arg)
       => /\ last'.threw = "none"
          /\ last'.ret = last.ret
          /\ ~last'.wrapped
          /\ UNCHANGED <<Fields, subs>>]_vars

\* The pipe as constructed, among the subscriptions created so far.
Fresh ==
  [St EXCEPT !.lv = Null, !.lrv = Null, !.sub = Null, !.obj = Null]

\* C9: after ngOnDestroy on a bound pipe the four fields are null and the
\* next render does what it does on a fresh pipe.
C9_DestroyResets ==
  (last.op = "ngOnDestroy" /\ last.wasObj # Null)
  => /\ _latestValue = Null /\ _latestReturnedValue = Null
     /\ _subscription = Null /\ _obj = Null
     /\ RenderView(St) = RenderView(Fresh)

ErrorSignalled ==
  _obj # Null /\ Len(subs) > 0 /\ subs[Len(subs)].status = "errored"

SameBinding ==
  _obj' = _obj /\ Len(subs') = Len(subs) /\ last'.op # "ngOnDestroy"

\* C10: the error of the bound producer is rethrown, and from then on
\* _latestValue keeps its value until the pipe is rebound or destroyed.
C10_ErrorFreezesLatestValue ==
  [][/\ (last'.op = "error" => last'.threw = "producer")
     /\ (ErrorSignalled /\ SameBinding) => _latestValue' = _latestValue]_vars

\* C11: transform(null) on a pipe bound to P unsubscribes P's subscription,
\* clears the fields, returns null and leaves no subscription open.
C11_RenderAbsentBound ==
  [][(IsRenderStep /\ _obj # Null /\ last'.arg = Null)
       => /\ last'.threw = "none" /\ last'.ret = Null /\ ~last'.wrapped
          /\ HasEv(last'.log, "unsubscribe")
          /\ ~HasEv(last'.log, "subscribe")
          /\ _latestValue' = Null /\ _latestReturnedValue' = Null
          /\ _subscription' = Null /\ _obj' = Null
          /\ NumActive(subs') = 0]_vars

\* C12: _subscription is non-null exactly when _obj is non-null.
C12_SubscriptionIffObj == (_subscription # Null) <=> (_obj # Null)

\* C13: a delivery writes _latestValue only when it comes from the
\* subscription that _subscription holds, never from one already
\* unsubscribed.
C13_OnlyCurrentHandleWrites ==
  [][(last'.op = "next" /\ HasEv(last'.log, "write"))
       => /\ ~last'.late
          /\ \A i \in 1..Len(subs) :
               subs[i].status = "active" => i = _subscription]_vars

\* C14: a delivery writes _latestValue only inside the Angular zone, and
\* every such write is followed at once, in the zone, by markForCheck.
C14_WriteInZoneThenMark ==
  \A i \in 1..Len(last.log) :
    last.log[i][1] = "write"
    => /\ last.log[i][2] = "angular"
       /\ i < Len(last.log)
       /\ last.log[i + 1] = <<"markForCheck", "angular">>

C14_Witness ==
  /\ last.op = "next" /\ ~last.late
  /\ last.log = <<<<"write", "angular">>, <<"markForCheck", "angular">>>>
  /\ _latestValue \in Values
  /\ subs[_subscription].zone = "outside"

C16_DestroyIdempotent ==
  [][(last'.op = "ngOnDestroy")
       => /\ (_obj = Null)
             => /\ UNCHANGED <<Fields, subs>>
                /\ last'.log = <<>> /\ last'.threw = "none"
          /\ LET again == ngOnDestroy(St')
             IN /\ again.lv = _latestValue' /\ again.lrv = _latestReturnedValue'
                /\ again.sub = _subscription' /\ again.obj = _obj'
                /\ again.subs = subs'
                /\ again.log = <<>> /\ again.threw = "none"]_vars

C16_Witness ==
  /\ last.op = "ngOnDestroy" /\ last.wasObj = Null /\ last.log = <<>>
  /\ Len(subs) >= 1 /\ _obj = Null

\* C17: no call fails by calling unsubscribe on a null _subscription.
C17_DisposeHasHandle == last.threw # "TypeError"

\* C18: when transform returns, _latestReturnedValue and _latestValue are
\* both the value it returned.
C18_ReturnedIsLatest ==
  (last.op = "transform" /\ last.threw = "none")
  => /\ _latestReturnedValue = _latestValue
     /\ last.ret = _latestValue

C18_Witness ==
  /\ last.op = "transform" /\ last.threw = "none" /\ last.wrapped
  /\ last.ret \in Values /\ _latestReturnedValue = last.ret

\* C19: while _obj is null, _latestValue and _latestReturnedValue are null.
C19_UnboundHoldsNoValue ==
  _obj = Null => (_latestValue = Null /\ _latestReturnedValue = Null)

C19_Witness ==
  /\ _obj = Null /\ last.op = "next" /\ last.late
  /\ \E i \in 1..Len(subs) : subs[i].status = "unsubscribed"

====
